---- MODULE Spec2Model ----
(***************************************************************************)
(* The Top Push matrix-factorisation trainer of src/code/Train.ipynb:      *)
(* the cost graph (float32 tensors), the batch sampler and the training   *)
(* driver (init_op, epoch loop, batch loop, sess.run, print, np.save).    *)
(*                                                                         *)
(* Indices are 0-based as in the source; TLA+ sequences are 1-based, so   *)
(* element i of an array a is a[i + 1].                                   *)
(***************************************************************************)
EXTENDS Integers, Sequences, FiniteSets, TLC

(***************************************************************************)
(* Bounds of the model.                                                    *)
(***************************************************************************)
MaxN == 2
MaxM == 2
MaxEpochs == 2
Levels == 2
\* The source's 1e-3 (the scale of the initial values, the learning rate) is
\* 1/Milli here: the products of the cost graph must fit TLC's integers.
Milli == 4
SamplerN == 3

(***************************************************************************)
(* Program constants.                                                      *)
(***************************************************************************)
RAND_SEED == 0

(***************************************************************************)
(* float32 values.  A value is a pair <<n, d>>: a finite value is the     *)
(* fraction n/d in lowest terms with d > 0; <<1, 0>> is +inf, <<-1, 0>>   *)
(* is -inf and <<0, 0>> is NaN.  Rounding and signed zeros are not        *)
(* modelled; the special values and their IEEE arithmetic are.            *)
(***************************************************************************)
Abs(i) == IF i < 0 THEN -i ELSE i

Min(i, j) == IF i < j THEN i ELSE j

RECURSIVE GCD(_, _)
GCD(i, j) == IF j = 0 THEN i ELSE GCD(j, i % j)

Frac(n, d) ==
    LET g == GCD(Abs(n), d)
    IN  <<n \div g, d \div g>>

Fin(i) == <<i, 1>>
PInf == <<1, 0>>
NInf == <<-1, 0>>
NaN == <<0, 0>>
Zero == <<0, 1>>
One == <<1, 1>>

IsNaN(x) == x = NaN
IsInf(x) == x = PInf \/ x = NInf
IsFinite(x) == x[2] > 0
Sign(x) == IF x[1] > 0 THEN 1 ELSE IF x[1] < 0 THEN -1 ELSE 0
Signed(s) == IF s > 0 THEN PInf ELSE NInf

FNeg(x) == <<-x[1], x[2]>>

FAdd(x, y) ==
    IF IsNaN(x) \/ IsNaN(y) THEN NaN
    ELSE IF IsInf(x) /\ IsInf(y) THEN (IF x = y THEN x ELSE NaN)
    ELSE IF IsInf(x) THEN x
    ELSE IF IsInf(y) THEN y
    ELSE LET g == GCD(x[2], y[2])
         IN  Frac(x[1] * (y[2] \div g) + y[1] * (x[2] \div g), (x[2] \div g) * y[2])

FSub(x, y) == FAdd(x, FNeg(y))

FMul(x, y) ==
    IF IsNaN(x) \/ IsNaN(y) THEN NaN
    ELSE IF IsInf(x) \/ IsInf(y)
         THEN (IF Sign(x) = 0 \/ Sign(y) = 0 THEN NaN ELSE Signed(Sign(x) * Sign(y)))
    ELSE Frac(x[1] * y[1], x[2] * y[2])

\* x / y for a divisor y that is never a negative zero (y is a count or a size)
FDiv(x, y) ==
    IF IsNaN(x) \/ IsNaN(y) THEN NaN
    ELSE IF IsInf(x) /\ IsInf(y) THEN NaN
    ELSE IF IsInf(y) THEN Zero
    ELSE IF Sign(y) = 0 THEN (IF Sign(x) = 0 THEN NaN ELSE Signed(Sign(x)))
    ELSE IF IsInf(x) THEN Signed(Sign(x) * Sign(y))
    ELSE Frac(Sign(y) * x[1] * y[2], x[2] * Abs(y[1]))

\* x < y; false when either is NaN
FLess(x, y) ==
    IF IsNaN(x) \/ IsNaN(y) THEN FALSE
    ELSE IF IsInf(x) /\ IsInf(y) THEN x = NInf /\ y = PInf
    ELSE x[1] * y[2] < y[1] * x[2]

FMax(x, y) == IF FLess(x, y) THEN y ELSE x

\* a variant without the clipping
relu_identity(x) == x

\* tf.nn.relu: max(x, 0), NaN kept
relu(x) == IF IsNaN(x) THEN NaN ELSE IF FLess(x, Zero) THEN Zero ELSE x

RECURSIVE FSum(_)
FSum(v) == IF v = <<>> THEN Zero ELSE FAdd(FSum(SubSeq(v, 1, Len(v) - 1)), v[Len(v)])

(***************************************************************************)
(* Arrays.                                                                 *)
(***************************************************************************)
\* a[lo:hi] of Python for 0 <= lo: the elements lo .. min(hi, len(a)) - 1
Slice(a, lo, hi) == SubSeq(a, lo + 1, Min(hi, Len(a)))

\* an array with its elements computed (a function constructor is evaluated
\* at each use otherwise)
Vec(f) == SubSeq(f, 1, Len(f))

RECURSIVE Flatten(_)
Flatten(rows) == IF rows = <<>> THEN <<>> ELSE Head(rows) \o Flatten(Tail(rows))

RECURSIVE SortedSeq(_)
SortedSeq(set) ==
    IF set = {} THEN <<>>
    ELSE LET lo == CHOOSE x \in set : \A y \in set : x <= y
         IN  <<lo>> \o SortedSeq(set \ {lo})

\* the arrays np.random.permutation(n) can return
permutation(n) ==
    {p \in [1..n -> 0..(n - 1)] : \A i, j \in 1..n : p[i] = p[j] => i = j}

(***************************************************************************)
(* The membership matrix Y (N x M, CSR, boolean) as the preprocessing     *)
(* notebook builds it: row n is the increasing sequence of the columns    *)
(* stored in that row, and every stored entry is True.                    *)
(***************************************************************************)
CsrMatrices(n, m) ==
    {[r \in 1..n |-> SortedSeq(rows[r])] : rows \in [1..n -> SUBSET (0..(m - 1))]}

(***************************************************************************)
(* Parameter initialisation: tf.set_random_seed(RAND_SEED) makes each     *)
(* tf.random_uniform op a function of the seed and of the op; the values  *)
(* lie in [0, 1) and are scaled by 1e-3.                                   *)
(***************************************************************************)
random_uniform(seed, op, rows, cols) ==
    Vec([i \in 1..rows |->
        Vec([j \in 1..cols |->
            Frac((seed + op + i + j + i * j * op) % Levels, Levels)])])

Scale(c, t) == Vec([i \in 1..Len(t) |-> Vec([j \in 1..Len(t[i]) |-> FMul(c, t[i][j])])])

Shift(t, c) == Vec([i \in 1..Len(t) |-> Vec([j \in 1..Len(t[i]) |-> FAdd(t[i][j], c)])])

milli == Frac(1, Milli)

S_init(seed, d, m) == Scale(milli, random_uniform(seed, 1, d, m))
b_init(seed, m) == Scale(milli, random_uniform(seed, 2, 1, m))
P_init(seed, n, d) == Scale(milli, random_uniform(seed, 3, n, d))

(***************************************************************************)
(* Batch sampler.                                                          *)
(***************************************************************************)
\* int((N - 1) / batch_size) + 1, for N >= 1
n_batches_of(n, bs) == ((n - 1) \div bs) + 1

ix_start_of(k, bs) == k * bs
ix_end_of(k, bs, n) == Min((k + 1) * bs, n)

\* a variant that pads from the end of the permutation instead
Padding_from_tail(perm, bs, have) ==
    Slice(perm, Len(perm) - Min(bs - have, Len(perm)), Len(perm))

\* the padding np.r_[indices, rand_ix[:batch_size - len(indices)]]
Padding(perm, bs, have) == Slice(perm, 0, bs - have)

indices_of(perm, k, bs, n) ==
    LET chunk == Slice(perm, ix_start_of(k, bs), ix_end_of(k, bs, n))
    IN  IF Len(chunk) < bs THEN chunk \o Padding(perm, bs, Len(chunk)) ELSE chunk

(***************************************************************************)
(* Batch statistics.                                                       *)
(***************************************************************************)
\* Y[indices, :]
Y_nb_of(y, ix) == Vec([r \in 1..Len(ix) |-> y[ix[r] + 1]])

\* Y_nb.sum(axis=1): the stored entries of a row are all True
Mplus_nb_of(ynb) == Vec([r \in 1..Len(ynb) |-> Len(ynb[r])])

\* a variant that lists the stored entries column by column
posIx_column_major(ynb) ==
    LET cols == SortedSeq(UNION {{ynb[r][k] : k \in 1..Len(ynb[r])} : r \in 1..Len(ynb)})
        rows == Vec([r \in 1..Len(ynb) |-> r])
    IN  Flatten(Vec([c \in 1..Len(cols) |->
            LET holders == SelectSeq(rows, LAMBDA r :
                               \E k \in 1..Len(ynb[r]) : ynb[r][k] = cols[c])
            IN  Vec([i \in 1..Len(holders) |-> <<holders[i] - 1, cols[c]>>])]))

\* np.hstack([Y_coo.row, Y_coo.col]): the stored entries, row by row
posIx_of(ynb) ==
    Flatten(Vec([r \in 1..Len(ynb) |->
                    Vec([k \in 1..Len(ynb[r]) |-> <<r - 1, ynb[r][k]>>])]))

(***************************************************************************)
(* The cost graph.                                                         *)
(***************************************************************************)
\* tf.gather(params=P, indices=pIx, axis=0)
Pb_of(p, pix) == Vec([r \in 1..Len(pix) |-> p[pix[r] + 1]])

\* tf.matmul(Pb, S) + b, with b (1 x M) broadcast over the rows
T_of(pb, s, bias) ==
    Vec([r \in 1..Len(pb) |->
        Vec([m \in 1..Len(bias[1]) |->
            FAdd(FSum(Vec([d \in 1..Len(s) |-> FMul(pb[r][d], s[d][m])])),
                 bias[1][m])])])

\* tf.gather_nd(params=T, indices=posIx)
pos_vec_of(t, pos) == Vec([k \in 1..Len(pos) |-> t[pos[k][1] + 1][pos[k][2] + 1]])

tile(v, n) == Vec([k \in 1..n |-> v])

updates_ix(pos) == Vec([k \in 1..Len(pos) |-> k])

\* tf.scatter_nd(shape=T.shape, indices=posIx, updates): zeros, plus the
\* updates that name the entry
scatter_nd(rows, cols, pos, updates) ==
    Vec([r \in 1..rows |->
        Vec([m \in 1..cols |->
            LET named == SelectSeq(updates_ix(pos), LAMBDA k : pos[k] = <<r - 1, m - 1>>)
            IN  FSum(Vec([i \in 1..Len(named) |-> updates[named[i]]]))])])

\* a variant without the mask
Tn_unmasked(t, pos, npos) == t

\* T + tf.scatter_nd(shape=T.shape, indices=posIx, updates=tf.tile([-np.inf], [nPos]))
Tn_of(t, pos, npos) ==
    LET mask == scatter_nd(Len(t), Len(t[1]), pos, tile(NInf, npos))
    IN  Vec([r \in 1..Len(t) |-> Vec([m \in 1..Len(t[r]) |-> FAdd(t[r][m], mask[r][m])])])

RECURSIVE MaxOf(_)
MaxOf(v) == IF Len(v) = 1 THEN v[1] ELSE FMax(MaxOf(SubSeq(v, 1, Len(v) - 1)), v[Len(v)])

\* What tf.reduce_max can return for one row: the maximum; for a row that
\* holds a NaN the kernel's comparison order decides between NaN and the
\* maximum of the other elements.
reduce_max_row(v) ==
    LET rest == SelectSeq(v, LAMBDA x : ~IsNaN(x))
    IN  IF rest = v THEN {MaxOf(v)}
        ELSE IF rest = <<>> THEN {NaN}
        ELSE {NaN, MaxOf(rest)}

RECURSIVE Choices(_)
Choices(sets) ==
    IF sets = <<>> THEN {<<>>}
    ELSE {<<x>> \o rest : x \in Head(sets), rest \in Choices(Tail(sets))}

\* tf.reduce_max(Tn, axis=1): every vector of per-row outcomes
max_negs_of(tn) == Choices(Vec([r \in 1..Len(tn) |-> reduce_max_row(tn[r])]))

\* posIx[:, 0]
row_ix_of(pos) == Vec([k \in 1..Len(pos) |-> pos[k][1]])

\* tf.nn.relu(tf.divide(1 - pos_vec + tf.gather(max_negs, row_ix), tf.gather(Mplus, row_ix)))
relu_vec_of(posvec, maxnegs, mplus, rowix) ==
    Vec([k \in 1..Len(posvec) |->
        relu(FDiv(FAdd(FSub(One, posvec[k]), maxnegs[rowix[k] + 1]),
                  Fin(mplus[rowix[k] + 1])))])

\* a variant that averages over the positive pairs instead
cost_divisor_nPos(t, npos) == npos

\* the divisor of the cost: T.shape[0]
cost_divisor(t, npos) == Len(t)

\* tf.reduce_sum(tf.multiply(relu_vec, relu_vec)) / tf.cast(T.shape[0], tf.float32)
cost_of(reluvec, t, npos) ==
    FDiv(FSum(Vec([k \in 1..Len(reluvec) |-> FMul(reluvec[k], reluvec[k])])),
         Fin(cost_divisor(t, npos)))

(***************************************************************************)
(* The optimiser.  tf.train.AdamOptimizer(learning_rate=1e-3) is           *)
(* TensorFlow's: one step moves a parameter by about the learning rate,   *)
(* up or down, or leaves it (zero gradient and zero moments).  The model  *)
(* keeps the direction a nondeterministic choice, one for the step.       *)
(***************************************************************************)
learning_rate == milli

AdamDirections == {-1, 0, 1}

AdamApply(t, dir) == Shift(t, FMul(Fin(dir), learning_rate))

(***************************************************************************)
(* State.                                                                  *)
(***************************************************************************)
VARIABLES
    N, M, D, batch_size, n_epochs,  \* the configuration: Y.shape, feature_dim, ...
    Y,                              \* the membership matrix
    S, b, P,                        \* the tf.Variables (<<>> before init_op)
    adam_t,                         \* updates the optimiser's slots have accumulated
    pc,                             \* where the driver is
    epoch, nb,                      \* the loop variables
    rand_ix,                        \* this epoch's permutation
    indices,                        \* the playlist indices of the current batch
    fed,                            \* the tensors of the last sess.run
    J,                              \* the cost the last sess.run returned
    n_lines, last_line,             \* the lines printed: how many, and the last
    file,                           \* the array np.save wrote to fparam (<<>>: no file)
    n_init, steps, n_saves,         \* runs of init_op, of the optimiser, of np.save
    epoch_batches,                  \* the batches of this epoch so far
    run2                            \* a second run of the same configuration

config == <<N, M, D, batch_size, n_epochs, Y>>
params == <<S, b, P, adam_t>>
vars == <<N, M, D, batch_size, n_epochs, Y, S, b, P, adam_t, pc, epoch, nb, rand_ix,
          indices, fed, J, n_lines, last_line, file, n_init, steps, n_saves,
          epoch_batches, run2>>

n_batches == n_batches_of(N, batch_size)

NoFeed == [pIx |-> <<>>, posIx |-> <<>>, Mplus |-> <<>>, nPos |-> 0,
           T |-> <<>>, Tn |-> <<>>, max_negs |-> <<>>, relu_vec |-> <<>>]

(***************************************************************************)
(* Initial states.                                                         *)
(***************************************************************************)
\* batch sizes up to the first that two copies of the permutation cannot fill
BatchSizes == 1..(2 * MaxN + 1)

\* membership matrices of the driver's runs: playlist r holds the first
\* (r + k) mod (m + 1) songs, so the matrices have rows without songs, rows
\* with every song and rows in between
PlaylistFamily(n, m) ==
    {Vec([r \in 1..n |-> SortedSeq(0..(((r + k) % (m + 1)) - 1))]) : k \in 0..1}

InitShape ==
    /\ N \in 1..MaxN
    /\ M \in 1..MaxM
    /\ D \in 1..MaxM
    /\ batch_size \in BatchSizes
    /\ n_epochs \in 1..MaxEpochs

InitDriver ==
    /\ epoch = 0
    /\ nb = 0
    /\ indices = <<>>
    /\ fed = NoFeed
    /\ J = Zero
    /\ n_lines = 0
    /\ last_line = <<>>
    /\ file = <<>>
    /\ steps = 0
    /\ n_saves = 0
    /\ epoch_batches = <<>>
    /\ adam_t = 0

\* the notebook before the training cell's session starts
Init ==
    /\ InitShape
    /\ Y \in PlaylistFamily(N, M)
    /\ InitDriver
    /\ rand_ix = <<>>
    /\ S = <<>> /\ b = <<>> /\ P = <<>>
    /\ n_init = 0
    /\ pc = "Uninitialized"
    /\ run2 = <<>>

(***************************************************************************)
(* The driver.                                                             *)
(***************************************************************************)
\* sess.run(init_op)
InitOp ==
    /\ pc = "Uninitialized"
    /\ S' = S_init(RAND_SEED, D, M)
    /\ b' = b_init(RAND_SEED, M)
    /\ P' = P_init(RAND_SEED, N, D)
    /\ adam_t' = 0
    /\ n_init' = n_init + 1
    /\ epoch' = 0
    /\ pc' = "Epoch"
    /\ UNCHANGED <<config, nb, rand_ix, indices, fed, J, n_lines, last_line, file,
                   steps, n_saves, epoch_batches, run2>>

\* for epoch in range(n_epochs): rand_ix = np.random.permutation(N)
DrawPermutation ==
    /\ pc = "Epoch"
    /\ epoch < n_epochs
    /\ rand_ix' \in permutation(N)
    /\ nb' = 0
    /\ epoch_batches' = <<>>
    /\ pc' = "Batch"
    /\ UNCHANGED <<config, params, epoch, indices, fed, J, n_lines, last_line, file,
                   n_init, steps, n_saves, run2>>

\* Value(x): the set that holds x.  A step binds each tensor from it, so
\* that the tensor is computed once and then used, as the session does.
Value(x) == {x}

\* The body of the batch loop up to sess.run([optimiser, cost], feed_dict).
\* A feed whose shape is not the placeholder's ([batch_size]) raises.
TrainStep ==
    /\ pc = "Batch"
    /\ \E ix \in Value(indices_of(rand_ix, nb, batch_size, N)) :
       \E Y_nb \in Value(Y_nb_of(Y, ix)) :
       \E Mplus_nb \in Value(Mplus_nb_of(Y_nb)), posIx \in Value(posIx_of(Y_nb)) :
           /\ indices' = ix
           /\ epoch_batches' = Append(epoch_batches, ix)
           /\ IF Len(ix) # batch_size
              THEN /\ pc' = "Failed"
                   /\ UNCHANGED <<params, fed, J, steps>>
              ELSE /\ \E T \in Value(T_of(Pb_of(P, ix), S, b)) :
                      \E Tn \in Value(Tn_of(T, posIx, Len(posIx))) :
                      \E max_negs \in max_negs_of(Tn) :
                      \E relu_vec \in Value(relu_vec_of(pos_vec_of(T, posIx), max_negs,
                                                       Mplus_nb, row_ix_of(posIx))) :
                          /\ fed' = [pIx |-> ix, posIx |-> posIx, Mplus |-> Mplus_nb,
                                     nPos |-> Len(posIx), T |-> T, Tn |-> Tn,
                                     max_negs |-> max_negs, relu_vec |-> relu_vec]
                          /\ J' = cost_of(relu_vec, T, Len(posIx))
                   /\ \E dir \in AdamDirections :
                       /\ S' = AdamApply(S, dir)
                       /\ b' = AdamApply(b, dir)
                       /\ P' = AdamApply(P, dir)
                   /\ adam_t' = adam_t + 1
                   /\ steps' = steps + 1
                   /\ pc' = "Emit"
    /\ UNCHANGED <<config, epoch, nb, rand_ix, n_lines, last_line, file, n_init,
                   n_saves, run2>>

\* a variant that leaves for the save after the first epoch
after_batch_one_epoch(ep, k, nbs, ne) == IF k + 1 < nbs THEN "Batch" ELSE "Save"

\* where the loops go after batch k of epoch ep: the next batch, the next
\* epoch, or past both loops to the save
after_batch(ep, k, nbs, ne) ==
    IF k + 1 < nbs THEN "Batch"
    ELSE IF ep + 1 < ne THEN "Epoch"
    ELSE "Save"

\* print('%d / %d / %d: %g' % (epoch + 1, nb + 1, n_batches, J)), then the
\* loops' next iteration
Emit ==
    /\ pc = "Emit"
    /\ n_lines' = n_lines + 1
    /\ last_line' = <<epoch + 1, nb + 1, n_batches, J>>
    /\ pc' = after_batch(epoch, nb, n_batches, n_epochs)
    /\ nb' = IF nb + 1 < n_batches THEN nb + 1 ELSE nb
    /\ epoch' = IF nb + 1 < n_batches THEN epoch ELSE epoch + 1
    /\ UNCHANGED <<config, params, rand_ix, indices, fed, J, file, n_init, steps,
                   n_saves, epoch_batches, run2>>

\* np.r_[...] stacks along axis 0 and raises unless the arrays have the same
\* number of columns
r_ok(arrays) == \A i, j \in 1..Len(arrays) : Len(arrays[i][1]) = Len(arrays[j][1])

r_(arrays) == Flatten(arrays)

\* w = np.r_[S.eval(), b.eval(), P.eval()]; np.save(fparam, w, allow_pickle=False)
SaveParameters ==
    /\ pc = "Save"
    /\ IF r_ok(<<S, b, P>>)
       THEN /\ file' = r_(<<S, b, P>>)
            /\ n_saves' = n_saves + 1
            /\ pc' = "Completed"
       ELSE /\ pc' = "Failed"
            /\ UNCHANGED <<file, n_saves>>
    /\ UNCHANGED <<config, params, epoch, nb, rand_ix, indices, fed, J, n_lines,
                   last_line, n_init, steps, epoch_batches, run2>>

Next == InitOp \/ DrawPermutation \/ TrainStep \/ Emit \/ SaveParameters

Spec == Init /\ [][Next]_vars

(***************************************************************************)
(* The cost graph on its own: one sess.run over every membership matrix   *)
(* of the shape, with the biases drawn from a grid so that scores order   *)
(* both ways and hinge terms are clipped and unclipped.                   *)
(***************************************************************************)
BiasGrid == {Fin(-1), Fin(1)}

identity_permutation(n) == Vec([i \in 1..n |-> i - 1])

InitCost ==
    /\ N \in 1..MaxN
    /\ M \in 1..MaxM
    /\ D \in 1..MaxM
    /\ batch_size \in 1..(N + 1)
    /\ n_epochs = 1
    /\ Y \in CsrMatrices(N, M)
    /\ InitDriver
    /\ S = S_init(RAND_SEED, D, M)
    /\ P = P_init(RAND_SEED, N, D)
    /\ \E bias \in [1..M -> BiasGrid] : b = <<Vec(bias)>>
    /\ rand_ix = identity_permutation(N)
    /\ n_init = 1
    /\ pc = "Batch"
    /\ run2 = <<>>

NextCost == TrainStep

SpecCost == InitCost /\ [][NextCost]_vars

(***************************************************************************)
(* The batch as the membership matrix describes it, for the properties of *)
(* the cost: the songs of the playlist in row r, the other songs, and the *)
(* score of a song in a row.                                               *)
(***************************************************************************)
BatchRows == 1..Len(indices)

PositivesOf(r) == {Y[indices[r] + 1][k] : k \in 1..Len(Y[indices[r] + 1])}

NegativesOf(r) == (0..(M - 1)) \ PositivesOf(r)

Score(r, c) == fed.T[r][c + 1]

Clip(x) == IF FLess(Zero, x) THEN x ELSE Zero

Square(x) == FMul(x, x)

\* relu((1 - T[r, c] + max_neg[r]) / Mplus[r]) ^ 2
HingeTerm(r, c) ==
    Square(Clip(FDiv(FAdd(FSub(One, Score(r, c)), fed.max_negs[r]),
                     Fin(Cardinality(PositivesOf(r))))))

RowLoss(r) ==
    LET row == Y[indices[r] + 1]
    IN  FSum(Vec([k \in 1..Len(row) |-> HingeTerm(r, row[k])]))

HingeLoss == FDiv(FSum(Vec([r \in BatchRows |-> RowLoss(r)])), Fin(batch_size))

C3_Masking ==
    pc = "Emit" =>
        \A r \in BatchRows :
            NegativesOf(r) # {} =>
                /\ \E c \in NegativesOf(r) : fed.max_negs[r] = Score(r, c)
                /\ \A c \in NegativesOf(r) : ~FLess(fed.max_negs[r], Score(r, c))

\* a row whose highest score is a positive song's, above every negative's
C3_Witness ==
    /\ pc = "Emit"
    /\ \E r \in BatchRows :
           /\ NegativesOf(r) # {}
           /\ \E c \in PositivesOf(r) :
                  \A n \in NegativesOf(r) : FLess(Score(r, n), Score(r, c))

DegenerateRow(r) == PositivesOf(r) = {} \/ NegativesOf(r) = {}

\* C6: a step over a batch with rows without positives or without negatives
\* divides by no zero and yields no NaN; the terms of such a row are zero
\* and the loss is finite and not negative.
C6_DegenerateRows ==
    pc = "Emit" =>
        /\ IsFinite(J)
        /\ ~FLess(J, Zero)
        /\ \A k \in 1..Len(fed.relu_vec) :
               /\ fed.Mplus[fed.posIx[k][1] + 1] # 0
               /\ ~IsNaN(fed.relu_vec[k])
               /\ DegenerateRow(fed.posIx[k][1] + 1) => fed.relu_vec[k] = Zero

\* a batch that holds a row without positives and a row without negatives
C6_Witness ==
    /\ pc = "Emit"
    /\ \E r1, r2 \in BatchRows : PositivesOf(r1) = {} /\ NegativesOf(r2) = {}

(***************************************************************************)
(* Properties of the driver.                                               *)
(***************************************************************************)
\* ceil(n / bs)
CeilDiv(n, bs) == (n + bs - 1) \div bs

\* the optimiser steps of a whole run
TotalSteps == n_epochs * CeilDiv(N, batch_size)

\* C1: an epoch has ceil(N/B) batches and every batch the sampler hands to a
\* step holds exactly B playlist indices, each in 0..N-1.
C1_BatchSampler ==
    /\ n_batches = CeilDiv(N, batch_size)
    /\ Len(epoch_batches) <= CeilDiv(N, batch_size)
    /\ indices # <<>> =>
           /\ Len(indices) = batch_size
           /\ \A k \in 1..Len(indices) : indices[k] \in 0..(N - 1)

\* C4: a run that has made all its steps ends with the file holding the
\* stack [S; b; P] of D + 1 + N rows, whatever M and D are.
C4_OutputBlob ==
    (steps = TotalSteps /\ pc \in {"Completed", "Failed"}) =>
        /\ file = S \o b \o P
        /\ Len(file) = D + 1 + N

\* C9: np.save runs at most once, only after the step of the last batch of
\* the last epoch and its line; a failed run leaves no file; with the file
\* written the driver is at its end and the file holds S, b, P as they are.
C9_PersistOrdering ==
    /\ n_saves <= 1
    /\ (file # <<>>) <=> (n_saves = 1)
    /\ file # <<>> =>
           /\ pc = "Completed"
           /\ steps = TotalSteps
           /\ n_lines = TotalSteps
           /\ last_line[1] = n_epochs /\ last_line[2] = CeilDiv(N, batch_size)
           /\ file = S \o b \o P
    /\ pc = "Failed" => file = <<>>

\* a completed run of several epochs of several batches, with its file
C9_Witness ==
    /\ pc = "Completed"
    /\ file # <<>>
    /\ n_epochs > 1
    /\ CeilDiv(N, batch_size) > 1

\* C10: init_op runs once, before the first epoch; every step is followed by
\* its line before the next step; the optimiser's slots are never reset; and
\* a run stops only at a failing step or, after n_epochs * ceil(N/B) steps,
\* in Completed.
C10_DriverProgress ==
    /\ n_init = IF pc = "Uninitialized" THEN 0 ELSE 1
    /\ n_lines = IF pc = "Emit" THEN steps - 1 ELSE steps
    /\ adam_t = steps
    /\ steps <= TotalSteps
    /\ pc = "Completed" => steps = TotalSteps
    /\ pc = "Failed" => steps < TotalSteps

(***************************************************************************)
(* Two runs of the training cell on one configuration, side by side: the  *)
(* initialisation and the sampler of each.  tf.set_random_seed(RAND_SEED) *)
(* seeds TensorFlow's generators; np.random is seeded nowhere in the      *)
(* notebook, so each run's permutations come from the generator as the    *)
(* operating system's entropy left it.                                     *)
(***************************************************************************)
NoRun == [S |-> <<>>, b |-> <<>>, P |-> <<>>, rand_ix |-> <<>>, indices |-> <<>>]

InitTwin ==
    /\ N \in 1..MaxN
    /\ M \in 1..MaxM
    /\ D \in 1..MaxM
    /\ batch_size \in 1..(2 * N + 1)
    /\ n_epochs \in 1..MaxEpochs
    /\ Y \in PlaylistFamily(N, M)
    /\ InitDriver
    /\ rand_ix = <<>>
    /\ S = <<>> /\ b = <<>> /\ P = <<>>
    /\ n_init = 0
    /\ pc = "Uninitialized"
    /\ run2 = NoRun

\* sess.run(init_op), in both runs
TwinInitOp ==
    /\ pc = "Uninitialized"
    /\ S' = S_init(RAND_SEED, D, M)
    /\ b' = b_init(RAND_SEED, M)
    /\ P' = P_init(RAND_SEED, N, D)
    /\ run2' = [run2 EXCEPT !.S = S_init(RAND_SEED, D, M),
                            !.b = b_init(RAND_SEED, M),
                            !.P = P_init(RAND_SEED, N, D)]
    /\ adam_t' = 0
    /\ n_init' = n_init + 1
    /\ epoch' = 0
    /\ pc' = "Epoch"
    /\ UNCHANGED <<config, nb, rand_ix, indices, fed, J, n_lines, last_line, file,
                   steps, n_saves, epoch_batches>>

\* rand_ix = np.random.permutation(N), in both runs
TwinDrawPermutation ==
    /\ pc = "Epoch"
    /\ epoch < n_epochs
    /\ rand_ix' \in permutation(N)
    /\ \E other \in permutation(N) : run2' = [run2 EXCEPT !.rand_ix = other]
    /\ nb' = 0
    /\ epoch_batches' = <<>>
    /\ pc' = "Batch"
    /\ UNCHANGED <<config, params, epoch, indices, fed, J, n_lines, last_line, file,
                   n_init, steps, n_saves>>

\* the slicing and padding of batch nb, in both runs, and the loops' next
\* iteration
TwinSampleBatch ==
    /\ pc = "Batch"
    /\ indices' = indices_of(rand_ix, nb, batch_size, N)
    /\ run2' = [run2 EXCEPT !.indices = indices_of(run2.rand_ix, nb, batch_size, N)]
    /\ epoch_batches' = Append(epoch_batches, indices')
    /\ pc' = after_batch(epoch, nb, n_batches, n_epochs)
    /\ nb' = IF nb + 1 < n_batches THEN nb + 1 ELSE nb
    /\ epoch' = IF nb + 1 < n_batches THEN epoch ELSE epoch + 1
    /\ UNCHANGED <<config, params, rand_ix, fed, J, n_lines, last_line, file, n_init,
                   steps, n_saves>>

NextTwin == TwinInitOp \/ TwinDrawPermutation \/ TwinSampleBatch

SpecTwin == InitTwin /\ [][NextTwin]_vars

(***************************************************************************)
(* The sampler on its own: the permutation of each epoch and the slicing  *)
(* and padding of each of its batches, for more playlists than the runs   *)
(* of the whole driver have.                                               *)
(***************************************************************************)
InitSampler ==
    /\ N \in 1..SamplerN
    /\ M \in 1..MaxM
    /\ D \in 1..MaxM
    /\ batch_size \in 1..(2 * N + 1)
    /\ n_epochs \in 1..MaxEpochs
    /\ Y \in PlaylistFamily(N, M)
    /\ InitDriver
    /\ rand_ix = <<>>
    /\ S = <<>> /\ b = <<>> /\ P = <<>>
    /\ n_init = 0
    /\ pc = "Uninitialized"
    /\ run2 = <<>>

\* the slicing and padding of batch nb, and the loops' next iteration
SampleBatch ==
    /\ pc = "Batch"
    /\ indices' = indices_of(rand_ix, nb, batch_size, N)
    /\ epoch_batches' = Append(epoch_batches, indices')
    /\ pc' = after_batch(epoch, nb, n_batches, n_epochs)
    /\ nb' = IF nb + 1 < n_batches THEN nb + 1 ELSE nb
    /\ epoch' = IF nb + 1 < n_batches THEN epoch ELSE epoch + 1
    /\ UNCHANGED <<config, params, rand_ix, fed, J, n_lines, last_line, file, n_init,
                   steps, n_saves, run2>>

NextSampler == InitOp \/ DrawPermutation \/ SampleBatch

SpecSampler == InitSampler /\ [][NextSampler]_vars

\* C8: two runs with the same seed and configuration hold the same initial
\* S, b, P and, at every epoch and batch position, the same permutation and
\* the same batch indices.
C8_Determinism ==
    pc # "Uninitialized" =>
        /\ run2.S = S /\ run2.b = b /\ run2.P = P
        /\ run2.rand_ix = rand_ix
        /\ run2.indices = indices

Count(x, seq) == Cardinality({k \in 1..Len(seq) : seq[k] = x})

\* the indices the final batch lacks: ceil(N/B) * B - N
PadLen == CeilDiv(N, batch_size) * batch_size - N

\* C5: for 1 <= B <= N the batches of an epoch are the consecutive slices
\* of the epoch's permutation of 0..N-1, the final one followed by the first
\* ceil(N/B)*B - N entries of the permutation; over the whole epoch every
\* index is drawn once or twice, and twice exactly when it is one of those.
C5_EpochCoverage ==
    (batch_size <= N /\ rand_ix # <<>>) =>
        /\ Len(rand_ix) = N
        /\ {rand_ix[k] : k \in 1..N} = 0..(N - 1)
        /\ \A j \in 1..Len(epoch_batches) :
               epoch_batches[j] =
                   IF j < CeilDiv(N, batch_size)
                   THEN SubSeq(rand_ix, (j - 1) * batch_size + 1, j * batch_size)
                   ELSE SubSeq(rand_ix, (j - 1) * batch_size + 1, N)
                            \o SubSeq(rand_ix, 1, PadLen)
        /\ Len(epoch_batches) = CeilDiv(N, batch_size) =>
               /\ \A x \in 0..(N - 1) : Count(x, Flatten(epoch_batches)) \in {1, 2}
               /\ {x \in 0..(N - 1) : Count(x, Flatten(epoch_batches)) = 2}
                      = {rand_ix[k] : k \in 1..PadLen}

\* a whole epoch whose final batch was padded
C5_Witness ==
    /\ batch_size <= N
    /\ PadLen > 0
    /\ Len(epoch_batches) = CeilDiv(N, batch_size)
    /\ CeilDiv(N, batch_size) > 1

(***************************************************************************)
(* The driver from a session whose biases have left the finite range of   *)
(* float32: the values a tf.float32 variable can hold are the finite      *)
(* ones, the two infinities and NaN, and the driver reads J as the step   *)
(* returns it.                                                             *)
(***************************************************************************)
FloatGrid == {Zero, PInf, NInf, NaN}

InitFloat ==
    /\ InitShape
    /\ Y \in PlaylistFamily(N, M)
    /\ InitDriver
    /\ rand_ix = <<>>
    /\ S = S_init(RAND_SEED, D, M)
    /\ P = P_init(RAND_SEED, N, D)
    /\ \E bias \in [1..M -> FloatGrid] : b = <<Vec(bias)>>
    /\ n_init = 1
    /\ pc = "Epoch"
    /\ run2 = <<>>

NextFloat == DrawPermutation \/ TrainStep \/ Emit \/ SaveParameters

SpecFloat == InitFloat /\ [][NextFloat]_vars

AllPairs ==
    Flatten(Vec([r \in 1..Len(fed.pIx) |-> Vec([m \in 1..M |-> <<r - 1, m - 1>>])]))

\* the pairs (r, m) with Y[indices[r], m] = 1, in row-major order
PositivePairs == SelectSeq(AllPairs, LAMBDA p : p[2] \in PositivesOf(p[1] + 1))

RECURSIVE SumSeq(_)
SumSeq(v) == IF v = <<>> THEN 0 ELSE Head(v) + SumSeq(Tail(v))

\* C11: the positive index list fed to a step holds exactly the pairs (r, m)
\* with 0 <= r < B, 0 <= m < M and Y[indices[r], m] = 1, once each and in
\* row-major order; Mplus[r] counts the listed pairs of local row r; nPos is
\* the length of the list and the sum of Mplus over the B rows.
C11_BatchStatistics ==
    pc = "Emit" =>
        /\ fed.pIx = indices
        /\ Len(indices) = batch_size
        /\ fed.posIx = PositivePairs
        /\ Len(fed.Mplus) = batch_size
        /\ \A r \in 1..batch_size :
               fed.Mplus[r] = Count(r - 1, row_ix_of(fed.posIx))
        /\ fed.nPos = Len(fed.posIx)
        /\ fed.nPos = SumSeq(fed.Mplus)

\* a padded batch whose wrapped-around last row and whose first rows list
\* pairs, with a song of a later row before a song of an earlier row
C11_Witness ==
    /\ pc = "Emit"
    /\ batch_size > N
    /\ fed.Mplus[batch_size] > 0
    /\ \E j, k \in 1..Len(fed.posIx) :
           /\ j < k
           /\ fed.posIx[j][1] < fed.posIx[k][1]
           /\ fed.posIx[j][2] > fed.posIx[k][2]


=============================================================================
